---------------------------- MODULE Spec2Model ----------------------------
(***************************************************************************)
(* A model of src/src/App.jsx: the birthday-card page.                     *)
(*                                                                         *)
(*   - useInView / NarrativeSection: the viewport reveal tracker of each   *)
(*     narrative section (state inView, the ref, the effect that creates   *)
(*     an IntersectionObserver and its cleanup);                           *)
(*   - DynamicCollageBackground: the collage generator, which runs in the  *)
(*     render body of the component (expansion, Fisher-Yates shuffle,      *)
(*     placement draws) and the onError fallback of each <img>;            *)
(*   - App: showScrollIndicator, handleScroll and the scroll listener.     *)
(*                                                                         *)
(* Math.random() is modelled as a draw r / RandDen with 0 <= r < RandDen;  *)
(* values derived from it are kept as exact scaled integers.  A render     *)
(* takes its draws, in call order, from one of a bounded family of draw    *)
(* sequences (Streams).  Visible fractions and thresholds are in tenths.   *)
(***************************************************************************)
EXTENDS Integers, Sequences, FiniteSets, TLC

VARIABLES
    phase,                \* "loading" | "mounted" | "crashed" | "unmounted"
    hasIO,                \* the host defines IntersectionObserver
    innerWidth,           \* window.innerWidth
    scrollY,              \* window.scrollY
    showScrollIndicator,  \* App: useState(true)
    scrollListeners,      \* number of 'scroll' listeners registered on window
    scrollHandled,        \* history: handleScroll has run at least once
    renders,              \* re-renders of App since mount
    collage,              \* the rendered collage <img> elements, in order
    sectionSrc,           \* per section: src of its <img> ("" when not rendered)
    inView,               \* per section: useInView's state
    observing,            \* per section: ids of the observers observing its element
    obsCreated,           \* per section: IntersectionObservers constructed so far
    lastIntersecting,     \* per section: isIntersecting of the latest notification
    genInput,             \* generator harness: the images prop
    genOut,               \* generator harness: the generated list
    genPc                 \* generator harness: "input" | "done"

vars == << phase, hasIO, innerWidth, scrollY, showScrollIndicator,
           scrollListeners, scrollHandled, renders, collage, sectionSrc,
           inView, observing, obsCreated, lastIntersecting,
           genInput, genOut, genPc >>

pageVars == << phase, hasIO, innerWidth, scrollY, showScrollIndicator,
               scrollListeners, scrollHandled, renders, collage, sectionSrc,
               inView, observing, obsCreated, lastIntersecting >>

genVars == << genInput, genOut, genPc >>

---------------------------------------------------------------------------
(* Bounds of the model.                                                    *)

NumImages == 2        \* records of imageDataMap that the page model renders
MaxImages == 2        \* longest images prop given to the generator harness
NumStreams == 7       \* draw sequences the generator harness draws from
RandDen == 1000       \* Math.random() returns r / RandDen, r in 0 .. RandDen - 1
MaxRenders == 1       \* re-renders of App the model follows
MaxErrors == 1        \* <img> elements showing a placeholder at one time

---------------------------------------------------------------------------
(* Program constants.                                                      *)

duplicationFactor == 4
ScrollThreshold == 100
MobileBreakpoint == 768
ThresholdMobile == 1       \* 0.1, in tenths
ThresholdDesktop == 3      \* 0.3, in tenths

CollagePlaceholder == "https://placehold.co/300x300/1e293b/94a3b8?text=Image"
SectionPlaceholder == "https://placehold.co/800x600/9ca3af/ffffff?text=Image+Missing"

Filenames ==
    << "skydive.png", "badminton.png", "everest.png",
       "thief.png", "ceo.png", "diving.png" >>

Min(a, b) == IF a < b THEN a ELSE b

\* imageDataMap: the records, by filename (the first NumImages of them).
imageDataMap ==
    [ n \in 1 .. Min(NumImages, Len(Filenames)) |-> [ filename |-> Filenames[n] ] ]

\* item => ({ ...item, imgUrl: `/images/${item.filename}` })
WithImgUrl(item) ==
    [ filename |-> item.filename, imgUrl |-> "/images/" \o item.filename ]

collageData == [ n \in DOMAIN imageDataMap |-> WithImgUrl(imageDataMap[n]) ]

---------------------------------------------------------------------------
(* The random source.                                                      *)

Streams == 0 .. NumStreams - 1

\* The streams a render of the page draws from.
PageStreams == { 0, 1 }

\* Representative draws: both ends of [0, 1) and interior points.
RandTable ==
    << 0, RandDen - 1, RandDen \div 2, RandDen \div 3, 1,
       (2 * RandDen) \div 3, RandDen \div 10 >>

\* The idx-th call of Math.random() (idx = 0, 1, ...) during a render that
\* draws from stream st: the table is walked from entry st with stride
\* st + 1 (stream Len(RandTable) - 1 is constant), streams past the table's
\* length with a growing stride.
Rand(st, idx) ==
    LET n == Len(RandTable)
    IN  RandTable[ ((st + idx * (st + 1) + (st \div n) * idx * idx) % n) + 1 ]

\* The decimal digits of r / RandDen after the point (at most d of them).
RECURSIVE FracDigits(_, _)
FracDigits(r, d) ==
    IF r = 0 \/ d = 0 THEN ""
    ELSE ToString((r * 10) \div RandDen) \o FracDigits((r * 10) % RandDen, d - 1)

\* `${Math.random()}`: Number-to-string of the draw.
RandStr(r) == IF r = 0 THEN "0" ELSE "0." \o FracDigits(r, 17)

---------------------------------------------------------------------------
(* DynamicCollageBackground: the generator (render body).                  *)

\* uniqueKey: `${img.filename}-${i}-${Math.random()}`
UniqueKeyNoIndex(img, i, r) == img.filename \o "-" \o RandStr(r)
UniqueKey(img, i, r) == img.filename \o "-" \o ToString(i) \o "-" \o RandStr(r)

\* Array.from({ length: duplicationFactor }, (_, i) => images.map(...)).flat()
\* Entry p (1-based) is repetition (p-1) \div n of image ((p-1) % n) + 1 and
\* takes draw p-1.
Expand(images, st) ==
    LET n == Len(images)
    IN  [ p \in 1 .. duplicationFactor * n |->
            LET i   == (p - 1) \div n
                img == images[((p - 1) % n) + 1]
            IN  [ filename  |-> img.filename,
                  imgUrl    |-> img.imgUrl,
                  uniqueKey |-> UniqueKey(img, i, Rand(st, p - 1)) ] ]

\* [a[i], a[j]] = [a[j], a[i]]   (1-based positions)
Swap(a, i, j) == [ a EXCEPT ![i] = a[j], ![j] = a[i] ]

\* Math.floor(Math.random() * m)
FloorScaled(r, m) == (r * m) \div RandDen

\* for (let i = a.length - 1; i > 0; i--) { j = floor(random() * (i+1)); swap }
\* i is the 0-based loop index; draw is the index of the next Math.random().
RECURSIVE ShuffleFrom(_, _, _, _)
ShuffleFrom(a, i, st, draw) ==
    IF i <= 0 THEN a
    ELSE LET j == FloorScaled(Rand(st, draw), i + 1)
         IN  ShuffleFrom(Swap(a, i + 1, j + 1), i - 1, st, draw + 1)

Shuffle(a, st, draw) == ShuffleFrom(a, Len(a) - 1, st, draw)

\* Placement draws; each value is scaled by RandDen (opacity by 10 * RandDen).
XY(r)       == r * 100                       \* Math.random() * 100        (%)
Rotation(r) == r * 60 - 30 * RandDen         \* Math.random() * 60 - 30    (deg)
Size(r)     == 30 * RandDen + r * 50         \* 30 + Math.random() * 50    (vh)
Opacity(r)  == 6 * RandDen + r * 4           \* 0.6 + Math.random() * 0.4
ZIndexCeil(r) == (r * 10 + RandDen - 1) \div RandDen
ZIndex(r)   == FloorScaled(r, 10)            \* Math.floor(Math.random() * 10)

\* denseCollageImages.map((item, index) => <img ... />): the element rendered
\* for the entry at 0-based position index, its six draws starting at draw.
Place(item, index, st, draw) ==
    [ uniqueKey |-> item.uniqueKey,
      filename  |-> item.filename,
      src       |-> item.imgUrl,
      x         |-> XY(Rand(st, draw)),
      y         |-> XY(Rand(st, draw + 1)),
      rotation  |-> Rotation(Rand(st, draw + 2)),
      size      |-> Size(Rand(st, draw + 3)),
      opacity   |-> Opacity(Rand(st, draw + 4)),
      zIndex    |-> ZIndex(Rand(st, draw + 5)),
      duration  |-> 30 + index * 2,
      delay     |-> index * 15 ]                 \* index * 1.5 s, in tenths

\* One run of the render body with the draws of stream st.
DynamicCollageBackground(images, st) ==
    LET dense    == Expand(images, st)
        m        == Len(dense)
        shuffled == Shuffle(dense, st, m)
        first    == m + (IF m > 0 THEN m - 1 ELSE 0)
    IN  [ p \in 1 .. m |-> Place(shuffled[p], p - 1, st, first + 6 * (p - 1)) ]

---------------------------------------------------------------------------
(* The page: App, its NarrativeSections and its collage.                   *)

Sections == DOMAIN collageData

ScrollOffsets == { 0, 100, 101 }
Widths == { 767, 768 }

\* IntersectionObserverEntry as the host may deliver it: the visible fraction
\* (intersectionRatio, in tenths) and isIntersecting.  isIntersecting is true
\* whenever target and viewport overlap or touch, so it comes with any ratio,
\* also one below the observer's threshold (the first notification after
\* observe(), or the ratio falling through the threshold); a target that is
\* not intersecting has ratio 0.
Ratios == { 0, 1, 3, 10 }
Entries ==
    { e \in [ isIntersecting : BOOLEAN, ratio : Ratios ] :
        ~e.isIntersecting => e.ratio = 0 }

\* const threshold = window.innerWidth < 768 ? 0.1 : 0.3;
Threshold == IF innerWidth < MobileBreakpoint THEN ThresholdMobile ELSE ThresholdDesktop

\* The observer callback: if (entry.isIntersecting) setInView(true);
OnIntersectFollow(cur, entry) == entry.isIntersecting
OnIntersect(cur, entry) == IF entry.isIntersecting THEN TRUE ELSE cur

\* The effect body: new IntersectionObserver(...); if (ref.current) observe.
\* obs is the set of observers observing the element, created the number of
\* observers this tracker has constructed; the new one is created + 1.
EffectRun(obs, created, refSet) == IF refSet THEN obs \cup { created + 1 } ELSE obs

\* The effect cleanup: if (ref.current) observer.unobserve(ref.current);
\* id is the observer of the effect run being cleaned up.
EffectCleanup(obs, id, refSet) == IF refSet THEN obs \ { id } ELSE obs

\* A re-render of a mounted NarrativeSection: options is a new object, so
\* the effect's dependency changed: cleanup of the last run, then a new run.
\* The section's <div> stays mounted, so ref.current is set throughout.
RerunEffect(obs, created) ==
    EffectRun(EffectCleanup(obs, created, TRUE), created, TRUE)

\* handleScroll: the new value of showScrollIndicator at offset y.
handleScrollInclusive(cur, y) ==
    IF y >= ScrollThreshold THEN FALSE ELSE TRUE
handleScroll(cur, y) ==
    IF y > ScrollThreshold THEN FALSE
    ELSE IF y <= ScrollThreshold THEN TRUE
    ELSE cur

\* onError of an <img>: e.target.src = placeholder, on that element only.
OnErrorBySource(dom, i, placeholder) ==
    [ p \in DOMAIN dom |->
        IF dom[p].filename = dom[i].filename
        THEN [ dom[p] EXCEPT !.src = placeholder ] ELSE dom[p] ]
OnError(dom, i, placeholder) == [ dom EXCEPT ![i].src = placeholder ]

\* The same handler on the <img> of a narrative section (srcs: section -> src).
OnSectionError(srcs, s, placeholder) == [ srcs EXCEPT ![s] = placeholder ]

\* The render body of <DynamicCollageBackground images={collageData} />
\* under each stream of draws.
PageLayouts == [ st \in PageStreams |-> DynamicCollageBackground(collageData, st) ]

\* A render of the collage committed over the elements dom: the render body
\* runs again; an element whose key is already mounted is kept (its src
\* attribute is not rewritten, the prop being the same), every other element
\* is created anew.
RenderCollage(dom, st) ==
    LET fresh == PageLayouts[st]
    IN  [ p \in DOMAIN fresh |->
            IF \E q \in DOMAIN dom : dom[q].uniqueKey = fresh[p].uniqueKey
            THEN [ fresh[p] EXCEPT
                     !.src = dom[CHOOSE q \in DOMAIN dom :
                                   dom[q].uniqueKey = fresh[p].uniqueKey].src ]
            ELSE fresh[p] ]

\* <img> elements currently showing a placeholder.
PlaceholderCount ==
    Cardinality({ p \in DOMAIN collage : collage[p].src = CollagePlaceholder })
    + Cardinality({ s \in Sections : sectionSrc[s] = SectionPlaceholder })

Init ==
    /\ phase = "loading"
    /\ hasIO \in BOOLEAN
    /\ innerWidth \in Widths
    /\ scrollY \in ScrollOffsets
    /\ showScrollIndicator = TRUE
    /\ scrollListeners = 0
    /\ scrollHandled = FALSE
    /\ renders = 0
    /\ collage = << >>
    /\ sectionSrc = [ s \in Sections |-> "" ]
    /\ inView = [ s \in Sections |-> FALSE ]
    /\ observing = [ s \in Sections |-> {} ]
    /\ obsCreated = [ s \in Sections |-> 0 ]
    /\ lastIntersecting = [ s \in Sections |-> FALSE ]
    /\ genInput = << >>
    /\ genOut = << >>
    /\ genPc = "input"

\* First render and commit of <App /> where IntersectionObserver exists: the
\* collage is generated, every section renders its image, every section's
\* effect constructs an observer and observes its <div>, App's effect adds
\* the scroll listener.
MountPage ==
    /\ phase = "loading"
    /\ hasIO
    /\ phase' = "mounted"
    /\ \E st \in PageStreams : collage' = RenderCollage(collage, st)
    /\ sectionSrc' = [ s \in Sections |-> collageData[s].imgUrl ]
    /\ observing' = [ s \in Sections |-> EffectRun(observing[s], obsCreated[s], TRUE) ]
    /\ obsCreated' = [ s \in Sections |-> obsCreated[s] + 1 ]
    /\ scrollListeners' = scrollListeners + 1
    /\ UNCHANGED << hasIO, innerWidth, scrollY, showScrollIndicator, scrollHandled,
                    renders, inView, lastIntersecting, genVars >>

\* First render and commit where IntersectionObserver is not defined: the
\* effect of useInView throws a ReferenceError at `new IntersectionObserver`;
\* no error boundary is rendered, so React unmounts the whole tree.
MountWithoutObserver ==
    /\ phase = "loading"
    /\ ~hasIO
    /\ phase' = "crashed"
    /\ UNCHANGED << hasIO, innerWidth, scrollY, showScrollIndicator, scrollListeners,
                    scrollHandled, renders, collage, sectionSrc, inView, observing,
                    obsCreated, lastIntersecting, genVars >>

\* A scroll event at offset y, handled by handleScroll.  When it changes
\* showScrollIndicator, App re-renders: the collage's render body runs again
\* and every NarrativeSection re-renders, re-running its effect.
Scroll(y) ==
    /\ phase = "mounted"
    /\ scrollListeners > 0
    /\ scrollY' = y
    /\ scrollHandled' = TRUE
    /\ LET nv == handleScroll(showScrollIndicator, y)
       IN  /\ showScrollIndicator' = nv
           /\ IF nv = showScrollIndicator
              THEN UNCHANGED << renders, collage, observing, obsCreated >>
              ELSE /\ renders < MaxRenders
                   /\ renders' = renders + 1
                   /\ \E st \in PageStreams : collage' = RenderCollage(collage, st)
                   /\ observing' =
                        [ s \in Sections |-> RerunEffect(observing[s], obsCreated[s]) ]
                   /\ obsCreated' = [ s \in Sections |-> obsCreated[s] + 1 ]
    /\ UNCHANGED << phase, hasIO, innerWidth, scrollListeners, sectionSrc, inView,
                    lastIntersecting, genVars >>

\* The host delivers entry e to the observer of section s.  When the callback
\* changes inView, the section re-renders and its effect runs again.
Notify(s, e) ==
    /\ phase = "mounted"
    /\ observing[s] # {}
    /\ LET nv == OnIntersect(inView[s], e)
       IN  /\ inView' = [ inView EXCEPT ![s] = nv ]
           /\ IF nv = inView[s]
              THEN UNCHANGED << observing, obsCreated >>
              ELSE /\ observing' =
                        [ observing EXCEPT ![s] = RerunEffect(observing[s], obsCreated[s]) ]
                   /\ obsCreated' = [ obsCreated EXCEPT ![s] = obsCreated[s] + 1 ]
    /\ lastIntersecting' = [ lastIntersecting EXCEPT ![s] = e.isIntersecting ]
    /\ UNCHANGED << phase, hasIO, innerWidth, scrollY, showScrollIndicator,
                    scrollListeners, scrollHandled, renders, collage, sectionSrc,
                    genVars >>

\* The image of collage element i fails to load.
CollageImgError(i) ==
    /\ phase = "mounted"
    /\ UNCHANGED << phase, hasIO, innerWidth, scrollY, showScrollIndicator,
                    scrollListeners, scrollHandled, renders, sectionSrc, inView,
                    observing, obsCreated, lastIntersecting, genVars >>
    /\ i \in DOMAIN collage
    /\ collage' = OnError(collage, i, CollagePlaceholder)
    /\ PlaceholderCount < MaxErrors \/ collage[i].src = CollagePlaceholder

\* The image of narrative section s fails to load.
SectionImgError(s) ==
    /\ phase = "mounted"
    /\ UNCHANGED << phase, hasIO, innerWidth, scrollY, showScrollIndicator,
                    scrollListeners, scrollHandled, renders, collage, inView,
                    observing, obsCreated, lastIntersecting, genVars >>
    /\ sectionSrc' = OnSectionError(sectionSrc, s, SectionPlaceholder)
    /\ PlaceholderCount < MaxErrors \/ sectionSrc[s] = SectionPlaceholder

\* The page is unmounted.  App's cleanup removes the scroll listener; each
\* tracker's cleanup runs with ref.current either still set or already
\* cleared by React (refCleared), which depends on the order in which the
\* React build detaches refs and runs passive-effect cleanups.
Unmount(refCleared) ==
    /\ phase = "mounted"
    /\ phase' = "unmounted"
    /\ scrollListeners' = scrollListeners - 1
    /\ observing' =
         [ s \in Sections |-> EffectCleanup(observing[s], obsCreated[s], ~refCleared) ]
    /\ collage' = << >>
    /\ sectionSrc' = [ s \in Sections |-> "" ]
    /\ UNCHANGED << hasIO, innerWidth, scrollY, showScrollIndicator, scrollHandled,
                    renders, inView, obsCreated, lastIntersecting, genVars >>

Next ==
    \/ MountPage
    \/ MountWithoutObserver
    \/ \E y \in ScrollOffsets : Scroll(y)
    \/ \E s \in Sections, e \in Entries : Notify(s, e)
    \/ \E i \in 1 .. duplicationFactor * Len(collageData) : CollageImgError(i)
    \/ \E s \in Sections : SectionImgError(s)
    \/ \E refCleared \in BOOLEAN : Unmount(refCleared)

Spec == Init /\ [][Next]_vars

---------------------------------------------------------------------------
(* Claims about the page, checked under Spec.                              *)

\* The placement list without the displayed source: keys, order, x, y,
\* rotation, size, opacity, zIndex and animation timing.
Layout(dom) ==
    [ p \in DOMAIN dom |->
        [ uniqueKey |-> dom[p].uniqueKey, filename |-> dom[p].filename,
          x |-> dom[p].x, y |-> dom[p].y, rotation |-> dom[p].rotation,
          size |-> dom[p].size, opacity |-> dom[p].opacity,
          zIndex |-> dom[p].zIndex, duration |-> dom[p].duration,
          delay |-> dom[p].delay ] ]

\* C1: once a tracker's output is true it is true in every later state, for
\* every sequence of notifications, re-renders and scroll events.
C1_OnceTrueStaysTrue ==
    [][ \A s \in Sections : inView[s] => inView'[s] ]_vars

\* C1 witness: App has re-rendered, and a tracker whose latest notification
\* reported the element as not intersecting still has output true.
C1_Witness ==
    \E s \in Sections :
        /\ phase = "mounted"
        /\ renders > 0
        /\ inView[s]
        /\ ~lastIntersecting[s]

\* C2: a tracker's output becomes true only on a notification whose visible
\* fraction is at least the tracker's threshold (so a tracker that only ever
\* receives fractions below the threshold stays false).
C2_TrueOnlyOnQualifying ==
    [][ \A s \in Sections, e \in Entries :
          (Notify(s, e) /\ ~inView[s] /\ inView'[s]) => e.ratio >= Threshold ]_vars

\* C3: between mount and unmount no scroll event or notification changes the
\* collage placement list or its instance keys.
C3_LayoutFixedWhileMounted ==
    [][ (phase = "mounted" /\ phase' = "mounted") => Layout(collage') = Layout(collage) ]_vars

\* C4: when the load of an image instance fails, that instance shows the
\* placeholder of its component and is otherwise the element it was (it
\* stays in the layout, at its place), every other instance is unchanged
\* (source and placement), and no instance is added or removed: the layout
\* is not regenerated.
C4_FailureIsLocal ==
    [][ /\ \A i \in DOMAIN collage :
             CollageImgError(i) =>
                /\ DOMAIN collage' = DOMAIN collage
                /\ collage'[i] = [ collage[i] EXCEPT !.src = CollagePlaceholder ]
                /\ \A j \in DOMAIN collage \ { i } : collage'[j] = collage[j]
                /\ sectionSrc' = sectionSrc
        /\ \A s \in Sections :
             SectionImgError(s) =>
                /\ sectionSrc'[s] = SectionPlaceholder
                /\ \A t \in Sections \ { s } : sectionSrc'[t] = sectionSrc[t]
                /\ collage' = collage ]_vars

\* C4 witness: a collage instance shows the placeholder while another
\* instance of the same source image still shows the image's own URL.
C4_Witness ==
    /\ phase = "mounted"
    /\ \E i, j \in DOMAIN collage :
         /\ i # j
         /\ collage[i].filename = collage[j].filename
         /\ collage[i].src = CollagePlaceholder
         /\ collage[j].src = "/images/" \o collage[j].filename

\* C5: a tracker constructs and registers exactly one observer over its
\* whole lifetime, whatever re-renders happen.
C5_OneObserverPerTracker ==
    \A s \in Sections : obsCreated[s] <= 1

\* C6: after the unmount cleanup has run, no observer of any tracker is
\* still observing its element, whether or not the ref was already cleared.
C6_UnmountDeregisters ==
    phase = "unmounted" => \A s \in Sections : observing[s] = {}

\* C7: without IntersectionObserver in the host, the page does not crash:
\* the sections stay rendered and every tracker's output stays false.
C7_NoObserverNoCrash ==
    (~hasIO /\ phase # "loading") =>
        /\ phase = "mounted"
        /\ \A s \in Sections : sectionSrc[s] # "" /\ ~inView[s]

---------------------------------------------------------------------------
(* Generator harness: the generator applied to bounded inputs.             *)

FilenamePool == { "a.png", "b.png", "a.png-0", "a" }

RECURSIVE UniqueSeqs(_, _)
UniqueSeqs(S, n) ==
    IF n = 0 THEN { << >> }
    ELSE LET shorter == UniqueSeqs(S, n - 1)
         IN  shorter \cup
             { Append(q, f) : q \in { t \in shorter : Len(t) = n - 1 }, f \in S }

GenInputs ==
    { [ p \in DOMAIN q |-> WithImgUrl([ filename |-> q[p] ]) ] :
        q \in { t \in UniqueSeqs(FilenamePool, MaxImages) :
                  \A a, b \in DOMAIN t : a # b => t[a] # t[b] } }

GenInit ==
    /\ genInput \in GenInputs
    /\ genOut = << >>
    /\ genPc = "input"
    /\ phase = "loading"
    /\ hasIO = TRUE
    /\ innerWidth = MobileBreakpoint
    /\ scrollY = 0
    /\ showScrollIndicator = TRUE
    /\ scrollListeners = 0
    /\ scrollHandled = FALSE
    /\ renders = 0
    /\ collage = << >>
    /\ sectionSrc = << >>
    /\ inView = << >>
    /\ observing = << >>
    /\ obsCreated = << >>
    /\ lastIntersecting = << >>

\* A mount of <DynamicCollageBackground images={genInput} />.
Generate ==
    /\ genPc = "input"
    /\ \E st \in Streams : genOut' = DynamicCollageBackground(genInput, st)
    /\ genPc' = "done"
    /\ UNCHANGED << genInput, pageVars >>

\* A later run of the render body on the same prop.
Regenerate ==
    /\ genPc = "done"
    /\ \E st \in Streams : genOut' = DynamicCollageBackground(genInput, st)
    /\ UNCHANGED << genInput, genPc, pageVars >>

GenNext == Generate \/ Regenerate

GenSpec == GenInit /\ [][GenNext]_vars

---------------------------------------------------------------------------
(* Claims about the generator, checked under GenSpec.                      *)

Instances(list, f) == { p \in DOMAIN list : list[p].filename = f }

\* C8: after expansion and shuffle, n records give exactly n * k entries,
\* every source record appears exactly k times, the n * k instance keys are
\* pairwise distinct, and the list is a permutation of the expanded list
\* (same keys, each still attached to its own source record).
C8_ExpandShuffleCounts ==
    genPc = "done" =>
        /\ Len(genOut) = Len(genInput) * duplicationFactor
        /\ \A n \in DOMAIN genInput :
             Cardinality(Instances(genOut, genInput[n].filename)) = duplicationFactor
        /\ \A p, q \in DOMAIN genOut :
             p # q => genOut[p].uniqueKey # genOut[q].uniqueKey
        /\ \E st \in Streams :
             LET dense == Expand(genInput, st)
             IN  { << genOut[p].uniqueKey, genOut[p].filename, genOut[p].src >> :
                     p \in DOMAIN genOut }
                 = { << dense[p].uniqueKey, dense[p].filename, dense[p].imgUrl >> :
                     p \in DOMAIN dense }

\* C8 witness: two records were expanded to eight entries and the shuffle
\* reordered them: the list no longer starts with the first record, and two
\* copies of one record ended up adjacent.
C8_Witness ==
    /\ genPc = "done"
    /\ Len(genInput) = 2
    /\ Len(genOut) = 8
    /\ genOut[1].filename # genInput[1].filename
    /\ \E p \in 1 .. 7 : genOut[p].filename = genOut[p + 1].filename

\* C10: every generated placement has x and y in [0, 100], rotation in
\* [-30, 30], size in [30, 80], opacity in [0.6, 1.0] and an integer zIndex
\* in [0, 9], for every draw in [0, 1).
C10_PlacementRanges ==
    \A p \in DOMAIN genOut :
        LET e == genOut[p]
        IN  /\ 0 <= e.x /\ e.x <= 100 * RandDen
            /\ 0 <= e.y /\ e.y <= 100 * RandDen
            /\ -30 * RandDen <= e.rotation /\ e.rotation <= 30 * RandDen
            /\ 30 * RandDen <= e.size /\ e.size <= 80 * RandDen
            /\ 6 * RandDen <= e.opacity /\ e.opacity <= 10 * RandDen
            /\ e.zIndex \in 0 .. 9

\* C10 witness: a generated list where the extreme draws occurred: the
\* smallest draw (x = 0, rotation = -30) and the largest (zIndex = 9).
C10_Witness ==
    /\ genPc = "done"
    /\ \E p \in DOMAIN genOut : genOut[p].x = 0
    /\ \E p \in DOMAIN genOut : genOut[p].rotation = -30 * RandDen
    /\ \E p \in DOMAIN genOut : genOut[p].zIndex = 9
    /\ \E p \in DOMAIN genOut : genOut[p].opacity = 6 * RandDen

=============================================================================
